---- MODULE Spec2Model ----
(***************************************************************************)
(* Model of okr/gantt.py (build_gantt_df, build_gantt_sequence) and of     *)
(* okr/workdays.py (estimate_workdays).                                    *)
(*                                                                         *)
(* Dates are day numbers: day 0 is Monday 2025-01-06, so Weekday(d) is     *)
(* d % 7 with 0 = Monday ... 6 = Sunday, as pandas' Timestamp.weekday().   *)
(* A task is modelled by its duration (the labels Task and Group are       *)
(* copied to the row unchanged and decide nothing); row i of a data frame  *)
(* belongs to task i of its timeline.  Every date argument is a calendar   *)
(* date (a timestamp at midnight), as are the entries of non_workdays.     *)
(***************************************************************************)
EXTENDS Integers, Sequences, FiniteSets, TLC

VARIABLES
    entry,            \* the function the caller invoked
    timelines,        \* build_gantt_sequence's timelines (build_gantt_df: <<timeline>>)
    init_date,        \* argument init_date
    non_workdays,     \* argument non_workdays, as a set of dates
    exclude_weekends, \* argument exclude_weekends
    start_date,       \* estimate_workdays' start_date
    end_date,         \* estimate_workdays' end_date
    pc,               \* position in the code
    current_date,     \* build_gantt_sequence: current_date
    tl,               \* build_gantt_sequence: index of the timeline of the for loop
    gantt_dfs,        \* build_gantt_sequence: data frames appended so far
    df_init,          \* build_gantt_df: its init_date parameter
    workdays,         \* build_gantt_df: the filtered calendar
    rows,             \* build_gantt_df: rows appended so far
    current_idx,      \* build_gantt_df: cursor into workdays
    task_i,           \* build_gantt_df: index of the task of the for loop
    raised,           \* the exception that ended the call, or "none"
    est               \* estimate_workdays' return value

vars == <<entry, timelines, init_date, non_workdays, exclude_weekends,
          start_date, end_date, pc, current_date, tl, gantt_dfs, df_init,
          workdays, rows, current_idx, task_i, raised, est>>

----------------------------------------------------------------------------
(* Bounds of the inputs *)

MaxTasks == 2
MaxDuration == 2
MaxTimelines == 2
MaxExclOffset == 4
MaxEstDate == 9

(* Program constants *)

CalendarFactor == 3
ScanWindow == 30
WorkWeek == 5

----------------------------------------------------------------------------
(* Helpers *)

Weekday(day) == day % 7

RECURSIVE SumDurations(_)
SumDurations(timeline) ==
    IF timeline = <<>> THEN 0
    ELSE Head(timeline) + SumDurations(Tail(timeline))

\* pd.date_range(start=start, periods=periods, freq="D")
DateRange(start, periods) == [k \in 1..periods |-> start + (k - 1)]

\* pd.date_range(start=start, end=end, freq="D"): empty when end < start
DateRangeTo(start, end) == [k \in 1..(end - start + 1) |-> start + (k - 1)]

QualifiesIgnoringHolidays(day, ew, nw) == (~ew) \/ Weekday(day) < WorkWeek

\* (not exclude_weekends or day.weekday() < 5) and day not in non_workdays_set
Qualifies(day, ew, nw) ==
    ((~ew) \/ Weekday(day) < WorkWeek) /\ day \notin nw

CalendarShort(init, max_days) == DateRange(init, max_days)

\* calendar = pd.date_range(start=init_date, periods=max_days * 3, freq="D")
Calendar(init, max_days) == DateRange(init, max_days * CalendarFactor)

\* workdays = [day for day in calendar if ...]
Workdays(calendar, ew, nw) ==
    SelectSeq(calendar, LAMBDA day : Qualifies(day, ew, nw))

\* Python list indexing: list[i] is defined for -len <= i < len, and a
\* negative i counts from the end; any other i raises IndexError.
PyInRange(list, i) == (0 - Len(list)) <= i /\ i < Len(list)
PyIndex(list, i) == IF i >= 0 THEN list[i + 1] ELSE list[Len(list) + i + 1]

EndIndexOffByOne(idx, duration) == idx + duration

\* the index of: end = workdays[current_idx + task.duration - 1]
EndIndex(idx, duration) == idx + duration - 1

NextIndexOverlap(idx, duration) == idx + duration - 1

\* current_idx += task.duration
NextIndex(idx, duration) == idx + duration

RECURSIVE MaxEnd(_)
\* gantt_df["End"].max()
MaxEnd(df) ==
    IF Len(df) = 1 THEN df[1].End
    ELSE LET m == MaxEnd(Tail(df))
         IN  IF df[1].End > m THEN df[1].End ELSE m

\* the for loop over the 30-day calendar after last_date: the first
\* qualifying day, or current_date unchanged when the loop ends without break
AdvanceDate(cur, last_date, ew, nw) ==
    LET calendar == DateRange(last_date + 1, ScanWindow)
        hits == SelectSeq(calendar, LAMBDA day : Qualifies(day, ew, nw))
    IN  IF hits = <<>> THEN cur ELSE hits[1]

WeekdaysThroughSaturday(all_days) ==
    SelectSeq(all_days, LAMBDA day : Weekday(day) <= WorkWeek)

\* weekdays = all_days[all_days.weekday < 5]
Weekdays(all_days) == SelectSeq(all_days, LAMBDA day : Weekday(day) < WorkWeek)

\* estimate_workdays(start_date, end_date, non_workdays)
EstimateWorkdays(start, end, nw) ==
    LET all_days == DateRangeTo(start, end)
        weekdays == Weekdays(all_days)
    IN  IF nw # {}
        THEN Len(SelectSeq(weekdays, LAMBDA day : day \notin nw))
        ELSE Len(weekdays)

----------------------------------------------------------------------------
(* Inputs *)

InitDates == 0..6

Durations == (0 - 1)..MaxDuration

SeqsUpTo(S, n) == UNION {[1..k -> S] : k \in 0..n}

\* what build_gantt_df is called with: any list of integer durations
Timelines == SeqsUpTo(Durations, MaxTasks)

\* what build_gantt_sequence is called with
ChainTimelines == SeqsUpTo(1..MaxDuration, MaxTasks)
Chains == UNION {[1..k -> ChainTimelines] : k \in 1..MaxTimelines}

\* exclusion sets: any set of days close to init, or a long block of days
ShortSets(init) == {{init + o : o \in S} : S \in SUBSET (0..MaxExclOffset)}
LongSets(init) ==
    {(init + a)..(init + a + n - 1) :
        a \in 0..MaxExclOffset, n \in {ScanWindow - 2, ScanWindow}}
NonWorkdaySets(init) == ShortSets(init) \cup LongSets(init)

----------------------------------------------------------------------------
(* Initial states: a call of one of the three functions *)

InitDf ==
    /\ entry = "build_gantt_df"
    /\ \E timeline \in Timelines : timelines = <<timeline>>
    /\ init_date \in InitDates
    /\ non_workdays \in NonWorkdaySets(init_date)
    /\ exclude_weekends \in BOOLEAN
    /\ start_date = 0 /\ end_date = 0
    /\ pc = "df_enter"
    /\ current_date = init_date
    /\ tl = 1
    /\ gantt_dfs = <<>>
    /\ df_init = init_date
    /\ workdays = <<>> /\ rows = <<>> /\ current_idx = 0 /\ task_i = 1
    /\ raised = "none"
    /\ est = 0

InitSeq ==
    /\ entry = "build_gantt_sequence"
    /\ timelines \in Chains
    /\ init_date \in InitDates
    /\ non_workdays \in NonWorkdaySets(init_date)
    /\ exclude_weekends \in BOOLEAN
    /\ start_date = 0 /\ end_date = 0
    /\ pc = "seq_loop"
    /\ current_date = init_date
    /\ tl = 1
    /\ gantt_dfs = <<>>
    /\ df_init = init_date
    /\ workdays = <<>> /\ rows = <<>> /\ current_idx = 0 /\ task_i = 1
    /\ raised = "none"
    /\ est = 0

InitEst ==
    /\ entry = "estimate_workdays"
    /\ timelines = <<>>
    /\ init_date = 0
    /\ start_date \in 0..MaxEstDate
    /\ end_date \in 0..MaxEstDate
    /\ non_workdays \in ShortSets(start_date)
    /\ exclude_weekends = TRUE
    /\ pc = "est_enter"
    /\ current_date = 0
    /\ tl = 1
    /\ gantt_dfs = <<>>
    /\ df_init = 0
    /\ workdays = <<>> /\ rows = <<>> /\ current_idx = 0 /\ task_i = 1
    /\ raised = "none"
    /\ est = 0

----------------------------------------------------------------------------
(* build_gantt_df *)

inputs == <<entry, timelines, init_date, non_workdays, exclude_weekends,
            start_date, end_date>>

\* gantt.py 28-50: the calendar and the workday list.  A negative periods
\* argument (a negative sum of durations) is rejected by some pandas releases
\* with a ValueError and gives an empty range in others; the model allows
\* both outcomes.  With an empty range the first list index raises IndexError.
BuildCalendar ==
    /\ pc = "df_enter"
    /\ LET max_days == SumDurations(timelines[tl])
       IN  \E rejects \in BOOLEAN :
             IF max_days * CalendarFactor < 0 /\ rejects
             THEN /\ raised' = "ValueError"
                  /\ pc' = "done"
                  /\ UNCHANGED <<workdays, rows, current_idx, task_i>>
             ELSE /\ workdays' = Workdays(Calendar(df_init, max_days),
                                          exclude_weekends, non_workdays)
                  /\ rows' = <<>>
                  /\ current_idx' = 0
                  /\ task_i' = 1
                  /\ pc' = "df_loop"
                  /\ UNCHANGED raised
    /\ UNCHANGED <<inputs, current_date, tl, gantt_dfs, df_init, est>>

\* gantt.py 51-60: one iteration of the loop over the tasks
PlaceTask ==
    /\ pc = "df_loop"
    /\ task_i <= Len(timelines[tl])
    /\ LET duration == timelines[tl][task_i]
           s == current_idx
           e == EndIndex(current_idx, duration)
       IN  IF PyInRange(workdays, s) /\ PyInRange(workdays, e)
           THEN /\ rows' = Append(rows, [Start |-> PyIndex(workdays, s),
                                         End |-> PyIndex(workdays, e)])
                /\ current_idx' = NextIndex(current_idx, duration)
                /\ task_i' = task_i + 1
                /\ UNCHANGED <<pc, raised>>
           ELSE /\ raised' = "IndexError"
                /\ pc' = "done"
                /\ UNCHANGED <<rows, current_idx, task_i>>
    /\ UNCHANGED <<inputs, current_date, tl, gantt_dfs, df_init, workdays, est>>

\* gantt.py 62: return pd.DataFrame(rows), to the caller of build_gantt_df
ReturnDataFrame ==
    /\ pc = "df_loop"
    /\ task_i > Len(timelines[tl])
    /\ entry = "build_gantt_df"
    /\ pc' = "done"
    /\ UNCHANGED <<inputs, current_date, tl, gantt_dfs, df_init, workdays,
                   rows, current_idx, task_i, raised, est>>

----------------------------------------------------------------------------
(* build_gantt_sequence *)

\* gantt.py 87-93: the loop takes the next timeline and calls build_gantt_df
CallBuildGanttDf ==
    /\ pc = "seq_loop"
    /\ tl <= Len(timelines)
    /\ df_init' = current_date
    /\ pc' = "df_enter"
    /\ UNCHANGED <<inputs, current_date, tl, gantt_dfs, workdays, rows,
                   current_idx, task_i, raised, est>>

\* gantt.py 62 and 94: build_gantt_df returns, the frame is appended
AppendDataFrame ==
    /\ pc = "df_loop"
    /\ task_i > Len(timelines[tl])
    /\ entry = "build_gantt_sequence"
    /\ gantt_dfs' = Append(gantt_dfs, rows)
    /\ pc' = "advance"
    /\ UNCHANGED <<inputs, current_date, tl, df_init, workdays, rows,
                   current_idx, task_i, raised, est>>

\* gantt.py 96-104: advance current_date past the last task.  A frame
\* without rows has no column "End": gantt_df["End"] raises KeyError.
AdvanceCurrentDate ==
    /\ pc = "advance"
    /\ IF gantt_dfs[tl] = <<>>
       THEN /\ raised' = "KeyError"
            /\ pc' = "done"
            /\ UNCHANGED <<current_date, tl>>
       ELSE /\ current_date' = AdvanceDate(current_date, MaxEnd(gantt_dfs[tl]),
                                           exclude_weekends, non_workdays)
            /\ tl' = tl + 1
            /\ pc' = "seq_loop"
            /\ UNCHANGED raised
    /\ UNCHANGED <<inputs, gantt_dfs, df_init, workdays, rows, current_idx,
                   task_i, est>>

\* gantt.py 106: return gantt_dfs
ReturnSequence ==
    /\ pc = "seq_loop"
    /\ tl > Len(timelines)
    /\ pc' = "done"
    /\ UNCHANGED <<inputs, current_date, tl, gantt_dfs, df_init, workdays,
                   rows, current_idx, task_i, raised, est>>

----------------------------------------------------------------------------
(* estimate_workdays *)

\* workdays.py 75-87
CallEstimateWorkdays ==
    /\ pc = "est_enter"
    /\ est' = EstimateWorkdays(start_date, end_date, non_workdays)
    /\ pc' = "done"
    /\ UNCHANGED <<inputs, current_date, tl, gantt_dfs, df_init, workdays,
                   rows, current_idx, task_i, raised>>

----------------------------------------------------------------------------
(* Specifications *)

NextDf == BuildCalendar \/ PlaceTask \/ ReturnDataFrame

NextSeq ==
    \/ CallBuildGanttDf
    \/ BuildCalendar
    \/ PlaceTask
    \/ AppendDataFrame
    \/ AdvanceCurrentDate
    \/ ReturnSequence

NextEst == CallEstimateWorkdays

SpecDf == InitDf /\ [][NextDf]_vars
SpecSeq == InitSeq /\ [][NextSeq]_vars
SpecEst == InitEst /\ [][NextEst]_vars

----------------------------------------------------------------------------
(* Vocabulary of the properties, stated from the inputs of the call *)

Timeline == timelines[1]
Returned == pc = "done" /\ raised = "none"
AllPositive(t) == \A i \in 1..Len(t) : t[i] >= 1
TotalDuration(t) == SumDurations(t)

\* a date qualifies when (exclude_weekends is false or it is Monday-Friday)
\* and it is not in the exclusion set
IsQualifyingWorkday(d) ==
    (exclude_weekends = FALSE \/ (d % 7) \in 0..4) /\ d \notin non_workdays

QualifyingIn(a, b) == {d \in a..b : IsQualifyingWorkday(d)}

\* the section 4.3 rule: Monday-Friday and not in the exclusion set
WeekdayWorkdaysIn(a, b) == {d \in a..b : (d % 7) \in 0..4 /\ d \notin non_workdays}

FirstWeekdayAtOrAfter(d) ==
    IF d % 7 = 5 THEN d + 2 ELSE IF d % 7 = 6 THEN d + 1 ELSE d

----------------------------------------------------------------------------
(* Properties of build_gantt_df, under SpecDf *)

\* C1: for a timeline of positive durations, every record build_gantt_df
\* builds has a span [Start, End] holding exactly `duration` qualifying
\* workdays, and Start and End are qualifying workdays themselves.
C1_SpanHoldsDuration ==
    (entry = "build_gantt_df" /\ AllPositive(Timeline)) =>
        \A i \in 1..Len(rows) :
            /\ Cardinality(QualifyingIn(rows[i].Start, rows[i].End)) = Timeline[i]
            /\ IsQualifyingWorkday(rows[i].Start)
            /\ IsQualifyingWorkday(rows[i].End)

\* a returned two-task schedule with an excluded date strictly inside a span
C1_Witness ==
    /\ entry = "build_gantt_df" /\ Returned /\ AllPositive(Timeline)
    /\ Len(rows) = 2
    /\ \E i \in 1..2 : \E d \in non_workdays :
          rows[i].Start < d /\ d < rows[i].End

\* C2: for consecutive tasks of one timeline (tasks have positive durations),
\* the Start of task n+1 is later than the End of task n and no qualifying
\* workday lies strictly between them.
C2_NextStartIsNextWorkday ==
    (entry = "build_gantt_df" /\ AllPositive(Timeline)) =>
        \A n \in 1..(Len(rows) - 1) :
            /\ rows[n + 1].Start > rows[n].End
            /\ QualifyingIn(rows[n].End + 1, rows[n + 1].Start - 1) = {}

\* a returned schedule whose second task starts after a gap of skipped days
C2_Witness ==
    /\ entry = "build_gantt_df" /\ Returned /\ AllPositive(Timeline)
    /\ Len(rows) = 2
    /\ rows[2].Start > rows[1].End + 1

\* C5 (as claimed): when the 3 x total raw days from init_date hold fewer
\* qualifying workdays than the total duration, the call either places every
\* task or fails with ValidationError.
C5_DenseExclusionHandled ==
    ( /\ entry = "build_gantt_df" /\ pc = "done"
      /\ Timeline # <<>> /\ AllPositive(Timeline)
      /\ Cardinality(QualifyingIn(init_date,
             init_date + 3 * TotalDuration(Timeline) - 1)) < TotalDuration(Timeline) )
    => \/ raised = "none" /\ Len(rows) = Len(Timeline)
       \/ raised = "ValidationError"

\* C6 (as claimed): an empty timeline, or a duration that is zero or negative,
\* makes build_gantt_df fail with ValidationError.
C6_InvalidInputRejected ==
    ( /\ entry = "build_gantt_df" /\ pc = "done"
      /\ (Timeline = <<>> \/ ~AllPositive(Timeline)) )
    => raised = "ValidationError"

\* C8 (as claimed): for every task scheduled, with either setting of
\* exclude_weekends, estimate_workdays over [Start, End] with the same
\* exclusion set gives the task's duration.
C8_EstimateEqualsDurationAnySetting ==
    (entry = "build_gantt_df" /\ Returned /\ AllPositive(Timeline)) =>
        \A i \in 1..Len(rows) :
            EstimateWorkdays(rows[i].Start, rows[i].End, non_workdays) = Timeline[i]

\* C8 (amended): for every task scheduled with exclude_weekends true,
\* estimate_workdays over [Start, End] with the same exclusion set gives the
\* task's duration.
C8_EstimateEqualsDuration ==
    (entry = "build_gantt_df" /\ Returned /\ AllPositive(Timeline)
        /\ exclude_weekends = TRUE) =>
        \A i \in 1..Len(rows) :
            EstimateWorkdays(rows[i].Start, rows[i].End, non_workdays) = Timeline[i]

\* a returned schedule, weekends excluded, with a span crossing both a
\* weekend and an excluded weekday
C8_Witness ==
    /\ entry = "build_gantt_df" /\ Returned /\ AllPositive(Timeline)
    /\ exclude_weekends = TRUE
    /\ \E i \in 1..Len(rows) :
          /\ \E d \in rows[i].Start..rows[i].End : d % 7 = 5
          /\ \E d \in non_workdays :
                d % 7 < 5 /\ rows[i].Start < d /\ d < rows[i].End

\* C10: with no exclusions and weekends excluded, for a non-empty timeline of
\* positive durations the 3 x total days from init_date hold at least total
\* Monday-Friday days, no index is out of range, every task is placed, and
\* the first task starts on the first weekday at or after init_date.
C10_FixedCalendarSuffices ==
    ( /\ entry = "build_gantt_df"
      /\ non_workdays = {} /\ exclude_weekends = TRUE
      /\ Timeline # <<>> /\ AllPositive(Timeline) )
    => /\ raised = "none"
       /\ pc # "df_enter" => Len(workdays) >= TotalDuration(Timeline)
       /\ pc = "done" =>
            /\ Len(rows) = Len(Timeline)
            /\ rows[1].Start = FirstWeekdayAtOrAfter(init_date)

\* a returned schedule of the largest total that started on a Saturday
C10_Witness ==
    /\ entry = "build_gantt_df" /\ Returned
    /\ non_workdays = {} /\ exclude_weekends = TRUE
    /\ init_date % 7 = 5
    /\ Len(Timeline) = MaxTasks /\ AllPositive(Timeline)
    /\ TotalDuration(Timeline) = MaxTasks * MaxDuration
    /\ Len(rows) = MaxTasks

----------------------------------------------------------------------------
(* Properties of build_gantt_sequence, under SpecSeq *)

LastEnd(df) == df[Len(df)].End

\* the advance past frame k has run
Advanced(k) == k < tl

\* C3 (as claimed): the first task of timeline k+1 starts on the first
\* qualifying workday strictly after the End of the last task of timeline k.
C3_ChainStartsAfterPrevious ==
    entry = "build_gantt_sequence" =>
        \A k \in 1..(Len(gantt_dfs) - 1) :
            (gantt_dfs[k] # <<>> /\ gantt_dfs[k + 1] # <<>>) =>
                /\ gantt_dfs[k + 1][1].Start > LastEnd(gantt_dfs[k])
                /\ QualifyingIn(LastEnd(gantt_dfs[k]) + 1,
                                gantt_dfs[k + 1][1].Start - 1) = {}

\* C4 (as claimed): across the frames of one build_gantt_sequence call, the
\* qualifying workdays inside the spans of two distinct tasks are disjoint.
C4_NoSharedWorkday ==
    entry = "build_gantt_sequence" =>
        \A k1, k2 \in 1..Len(gantt_dfs) :
            \A i \in 1..Len(gantt_dfs[k1]) : \A j \in 1..Len(gantt_dfs[k2]) :
                <<k1, i>> # <<k2, j>> =>
                    QualifyingIn(gantt_dfs[k1][i].Start, gantt_dfs[k1][i].End)
                      \cap QualifyingIn(gantt_dfs[k2][j].Start, gantt_dfs[k2][j].End)
                    = {}

\* C7 (as claimed): once a timeline is scheduled and none of the 30 days after
\* its maximum End qualifies, the call has failed with ValidationError.
C7_EmptyWindowRejected ==
    entry = "build_gantt_sequence" =>
        \A k \in 1..Len(gantt_dfs) :
            ( /\ Advanced(k) /\ gantt_dfs[k] # <<>>
              /\ QualifyingIn(MaxEnd(gantt_dfs[k]) + 1,
                              MaxEnd(gantt_dfs[k]) + 30) = {} )
            => raised = "ValidationError"

----------------------------------------------------------------------------
(* Properties of estimate_workdays, under SpecEst *)

\* C9: estimate_workdays returns the number of dates in [start_date, end_date]
\* that are Monday-Friday and not in non_workdays (5 for 2025-01-06 ..
\* 2025-01-12 without exclusions), and 0 when end_date precedes start_date.
C9_EstimateCountsWeekdays ==
    (entry = "estimate_workdays" /\ pc = "done") =>
        /\ raised = "none"
        /\ est = Cardinality(WeekdayWorkdaysIn(start_date, end_date))
        /\ end_date < start_date => est = 0
        /\ (start_date = 0 /\ end_date = 6 /\ non_workdays = {}) => est = 5

\* the count over a range that holds a weekend and an excluded weekday
C9_Witness ==
    /\ entry = "estimate_workdays" /\ pc = "done"
    /\ start_date = 0 /\ end_date = 6 /\ non_workdays = {2}
    /\ est = 4

====
